---- MODULE Spec2Model ----
(***************************************************************************)
(* Model of the module supervisor (src/bot_manager.py, class BotManager)   *)
(* and of the sequence controller (src/main.py, class SequenceController). *)
(*                                                                         *)
(* Time is counted in whole seconds (the floor of time.time()).  A thread  *)
(* object and the Event created with it in start_module share one index:   *)
(* threads[i] is the i-th Thread ever created, stop_events[i] the flag of  *)
(* the Event its _runner closure holds.  0 stands for Python's None where  *)
(* a thread or an event is expected, NoTime for a missing timestamp.       *)
(*                                                                         *)
(* The battle routines (src/modules/arena.py and tag_arena.py) are followed *)
(* in ses, one session at a time, against an environment that answers each *)
(* locate and each actuator call; shot is one call of locate_all_on_screen *)
(* (src/utils/screen.py) on the raw matches of one screenshot.             *)
(***************************************************************************)
EXTENDS Integers, Sequences, FiniteSets, TLC

\* ------------------------------------------------------------------ bounds
MaxRuns == 2
MaxTicks == 2
MaxSupTicks == 2
MaxSeqTicks == 1
MaxTimedTicks == 2
MaxPoints == 7
MaxWaits == 2

\* --------------------------------------------------------------- constants
Names == {"campaign", "arena", "tag_arena"}
Routines == {"campaign_loop", "arena_loop", "tag_arena_loop"}
action_map == [campaign |-> "campaign_loop", arena |-> "arena_loop", tag_arena |-> "tag_arena_loop"]
LogNone == "None"
LogFuncs == {LogNone, "log"}
Callers == {"main", "run", "gui"}
cooldowns == [arena |-> 15 * 60, tag_arena |-> 24 * 3600]
DefaultTimeout == 5
PollSleep == 1
Delays == {1, DefaultTimeout, 15 * 60, 24 * 3600}
SupNames == {"campaign", "arena"}
SupDelays == {DefaultTimeout}
SeqDelays == {DefaultTimeout}
StartTime == 24 * 3600
Ages == {10, 24 * 3600}
listbox == <<"campaign", "arena", "tag_arena">>
NoTime == -1
NotRegistered == [registered |-> FALSE, target |-> "", log_func |-> LogNone, thread |-> 0, stop_event |-> 0]
NoJoin == [active |-> FALSE, name |-> "", thread |-> 0, deadline |-> 0, rest |-> <<>>]

\* the battle routines (src/modules/arena.py, src/modules/tag_arena.py)
BattleCap == 10
Radius == 30
UsedCapacity == 3
MaxDrags == 4
BattleOverWait == 30
ClusterCap == 5
None == <<>>

VARIABLES modules, keys, threads, stop_events, last_completed, now, ticks,
          join, ret, sink, escaped,
          entries, idx, pc, stop_flag, current, gpc, wake, events, calls, stopped_at,
          ses, shot

supVars == <<modules, keys, threads, stop_events, last_completed, now, ticks, join, ret, sink,
            escaped>>
seqVars == <<entries, idx, pc, stop_flag, current, gpc, wake, events, calls, stopped_at>>
sesVars == <<ses, shot>>
vars == <<supVars, seqVars, sesVars>>

\* ------------------------------------------------------------- the queries
is_registered(name) == modules[name].registered

IsAlive(t) == t # 0 /\ threads[t].alive

is_running(name) ==
    IF ~modules[name].registered THEN FALSE
    ELSE IsAlive(modules[name].thread)

CooldownDuration(name) == IF name \in DOMAIN cooldowns THEN cooldowns[name] ELSE 0

Remaining_NoClamp(cooldown_duration, last_time, t) ==
    IF cooldown_duration <= 0 THEN 0
    ELSE IF last_time = NoTime THEN 0
    ELSE cooldown_duration - (t - last_time)

Remaining_SignError(cooldown_duration, last_time, t) ==
    IF cooldown_duration <= 0 THEN 0
    ELSE IF last_time = NoTime THEN 0
    ELSE LET elapsed == last_time - t
             remaining == cooldown_duration - elapsed
         IN  IF remaining > 0 THEN remaining ELSE 0

\* lines 110-119, with t the value of time.time()
Remaining(cooldown_duration, last_time, t) ==
    IF cooldown_duration <= 0 THEN 0
    ELSE IF last_time = NoTime THEN 0
    ELSE LET elapsed == t - last_time
             remaining == cooldown_duration - elapsed
         IN  IF remaining > 0 THEN remaining ELSE 0

get_cooldown_remaining(name) == Remaining(CooldownDuration(name), last_completed[name], now)

\* ----------------------------------------------------------- the supervisor
register_module_Overwrite(c, name, target, log_func) ==
    /\ ~join[c].active
    /\ modules' = [modules EXCEPT ![name] =
           [registered |-> TRUE, target |-> target, log_func |-> log_func,
            thread |-> 0, stop_event |-> 0]]
    /\ keys' = IF is_registered(name) THEN keys ELSE Append(keys, name)
    /\ ret' = [ret EXCEPT ![c] = "ok"]
    /\ UNCHANGED <<threads, stop_events, last_completed, now, ticks, join, sink, escaped, sesVars>>

register_module(c, name, target, log_func) ==
    /\ ~join[c].active
    /\ IF is_registered(name)
       THEN /\ ret' = [ret EXCEPT ![c] = "ValueError"]
            /\ UNCHANGED <<modules, keys>>
       ELSE /\ modules' = [modules EXCEPT ![name] =
                   [registered |-> TRUE, target |-> target, log_func |-> log_func,
                    thread |-> 0, stop_event |-> 0]]
            /\ keys' = Append(keys, name)
            /\ ret' = [ret EXCEPT ![c] = "ok"]
    /\ UNCHANGED <<threads, stop_events, last_completed, now, ticks, join, sink, escaped, sesVars>>

\* start_module on the supervisor state s = [modules, threads, stop_events]
AlreadyRunning_NoHandleCheck(s, name) == FALSE

AlreadyRunning_HandleOnly(s, name) == s.modules[name].thread # 0

AlreadyRunning(s, name) ==
    LET thread == s.modules[name].thread
    IN  thread # 0 /\ s.threads[thread].alive

Launch_ReusedEvent(s, name) ==
    LET new == Len(s.threads) + 1
        old == s.modules[name].stop_event
        ev == IF Len(s.stop_events) > 0 THEN Len(s.stop_events) ELSE new
    IN  [modules |-> [s.modules EXCEPT ![name].thread = new, ![name].stop_event = ev],
         threads |-> Append(s.threads,
                        [name |-> name, alive |-> TRUE, stop_event |-> ev,
                         target |-> s.modules[name].target,
                         log_func |-> s.modules[name].log_func]),
         stop_events |-> Append(s.stop_events, FALSE)]

Launch(s, name) ==
    LET new == Len(s.threads) + 1
    IN  [modules |-> [s.modules EXCEPT ![name].thread = new, ![name].stop_event = new],
         threads |-> Append(s.threads,
                        [name |-> name, alive |-> TRUE, stop_event |-> new,
                         target |-> s.modules[name].target,
                         log_func |-> s.modules[name].log_func]),
         stop_events |-> Append(s.stop_events, FALSE)]

StartOne(s, name) ==
    IF AlreadyRunning(s, name) THEN s ELSE Launch(s, name)

SupState == [modules |-> modules, threads |-> threads, stop_events |-> stop_events]

start_module(c, name) ==
    /\ ~join[c].active
    /\ IF ~modules[name].registered
       THEN /\ ret' = [ret EXCEPT ![c] = "KeyError"]
            /\ UNCHANGED <<modules, threads, stop_events>>
       ELSE /\ Len(StartOne(SupState, name).threads) <= MaxRuns
            /\ modules' = StartOne(SupState, name).modules
            /\ threads' = StartOne(SupState, name).threads
            /\ stop_events' = StartOne(SupState, name).stop_events
            /\ ret' = [ret EXCEPT ![c] = IF AlreadyRunning(SupState, name)
                                         THEN "already_running" ELSE "ok"]
    /\ UNCHANGED <<keys, last_completed, now, ticks, join, sink, escaped, sesVars>>

RECURSIVE StartEach(_, _)
StartEach(s, names) ==
    IF names = <<>> THEN s ELSE StartEach(StartOne(s, Head(names)), Tail(names))

start_all(c) ==
    /\ ~join[c].active
    /\ keys # <<>>
    /\ Len(StartEach(SupState, keys).threads) <= MaxRuns
    /\ modules' = StartEach(SupState, keys).modules
    /\ threads' = StartEach(SupState, keys).threads
    /\ stop_events' = StartEach(SupState, keys).stop_events
    /\ ret' = [ret EXCEPT ![c] = "ok"]
    /\ UNCHANGED <<keys, last_completed, now, ticks, join, sink, escaped, sesVars>>

\* stop_module: lines 68-74 run up to the join, join_return is the return of
\* thread.join(timeout) followed by lines 78-79.  names is the list of the
\* modules still to stop (one name for stop_module, the keys for stop_all);
\* s = [modules, stop_events, join].
Cleared_KeepHandle(mods, name) == mods

Cleared(mods, name) == [mods EXCEPT ![name].thread = 0, ![name].stop_event = 0]

SetEvent_All(evs, e) == [i \in DOMAIN evs |-> TRUE]

SetEvent(evs, e) == IF e # 0 THEN [evs EXCEPT ![e] = TRUE] ELSE evs

JoinDeadline(timeout) == now + timeout

RECURSIVE StopEach(_, _, _)
StopEach(s, names, timeout) ==
    IF names = <<>> THEN [s EXCEPT !.join = NoJoin]
    ELSE LET name == Head(names)
             info == s.modules[name]
             evs == SetEvent(s.stop_events, info.stop_event)
         IN  IF ~info.registered THEN StopEach(s, Tail(names), timeout)
             ELSE IF info.thread # 0
             THEN [modules |-> s.modules, stop_events |-> evs,
                   join |-> [active |-> TRUE, name |-> name, thread |-> info.thread,
                             deadline |-> JoinDeadline(timeout), rest |-> Tail(names)]]
             ELSE StopEach([modules |-> Cleared(s.modules, name), stop_events |-> evs,
                            join |-> NoJoin], Tail(names), timeout)

StopState == [modules |-> modules, stop_events |-> stop_events, join |-> NoJoin]

stop_module(c, name, timeout) ==
    /\ ~join[c].active
    /\ modules' = StopEach(StopState, <<name>>, timeout).modules
    /\ stop_events' = StopEach(StopState, <<name>>, timeout).stop_events
    /\ join' = [join EXCEPT ![c] = StopEach(StopState, <<name>>, timeout).join]
    /\ ret' = [ret EXCEPT ![c] = "ok"]
    /\ UNCHANGED <<keys, threads, last_completed, now, ticks, sink, escaped, sesVars>>

stop_all(c) ==
    /\ ~join[c].active
    /\ keys # <<>>
    /\ modules' = StopEach(StopState, keys, DefaultTimeout).modules
    /\ stop_events' = StopEach(StopState, keys, DefaultTimeout).stop_events
    /\ join' = [join EXCEPT ![c] = StopEach(StopState, keys, DefaultTimeout).join]
    /\ ret' = [ret EXCEPT ![c] = "ok"]
    /\ UNCHANGED <<keys, threads, last_completed, now, ticks, sink, escaped, sesVars>>

JoinReturns_NoTimeout(j, t) == ~threads[j.thread].alive

\* thread.join(timeout) has returned by time t
JoinReturns(j, t) == ~threads[j.thread].alive \/ t >= j.deadline

AfterJoin(c) ==
    StopEach([modules |-> Cleared(modules, join[c].name), stop_events |-> stop_events,
              join |-> NoJoin], join[c].rest, DefaultTimeout)

join_return(c) ==
    /\ join[c].active
    /\ JoinReturns(join[c], now)
    /\ modules' = AfterJoin(c).modules
    /\ stop_events' = AfterJoin(c).stop_events
    /\ join' = [join EXCEPT ![c] = AfterJoin(c).join]
    /\ UNCHANGED <<keys, threads, last_completed, now, ticks, ret, sink, escaped, sesVars>>

mark_completed(c, name) ==
    /\ ~join[c].active
    /\ last_completed' = [last_completed EXCEPT ![name] = now]
    /\ ret' = [ret EXCEPT ![c] = "ok"]
    /\ UNCHANGED <<modules, keys, threads, stop_events, now, ticks, join, sink, escaped, sesVars>>

\* ------------------------------------------------- the _runner of a thread
\* campaign_loop leaves its loop only once its stop event is set
\* (src/modules/campaign.py:8); the battle routines also end by themselves.
MayReturn(t) ==
    threads[t].target = "campaign_loop" => stop_events[threads[t].stop_event]

Ended_All(ths, t) == [u \in 1..Len(ths) |-> [ths[u] EXCEPT !.alive = FALSE]]

\* the thread t ends; no other thread is touched
Ended(ths, t) == [ths EXCEPT ![t].alive = FALSE]

runner_return_Marks(t) ==
    /\ threads[t].alive
    /\ MayReturn(t)
    /\ threads' = Ended(threads, t)
    /\ last_completed' = [last_completed EXCEPT ![threads[t].name] = now]
    /\ UNCHANGED <<modules, keys, stop_events, now, ticks, join, ret, sink, escaped, sesVars>>

runner_return(t) ==
    /\ threads[t].alive
    /\ MayReturn(t)
    /\ threads' = Ended(threads, t)
    /\ UNCHANGED <<modules, keys, stop_events, last_completed, now, ticks, join, ret, sink, escaped, sesVars>>

\* the except branch of _runner: sink_ok is whether log_func returns normally.
\* "uncaught" would be an exception that leaves _runner; escaped lists the
\* threads that ended that way.  sink lists the calls made to log functions
\* by _runner, each with the way the call ended.
Handled_NoInnerTry(log_func, sink_ok) ==
    IF log_func = LogNone THEN "no_log"
    ELSE IF sink_ok THEN "logged" ELSE "uncaught"

Handled(log_func, sink_ok) ==
    IF log_func = LogNone THEN "no_log"
    ELSE IF sink_ok THEN "logged" ELSE "log_failed"

runner_exception(t, sink_ok) ==
    /\ threads[t].alive
    /\ threads' = Ended(threads, t)
    /\ sink' = IF threads[t].log_func # LogNone
               THEN Append(sink, <<"exception", threads[t].name,
                                   IF sink_ok THEN "returned" ELSE "raised">>)
               ELSE sink
    /\ escaped' = IF Handled(threads[t].log_func, sink_ok) = "uncaught"
                  THEN Append(escaped, threads[t].name)
                  ELSE escaped
    /\ UNCHANGED <<modules, keys, stop_events, last_completed, now, ticks, join, ret, sesVars>>

\* ------------------------------------------------------------------- time
\* thread.join(timeout) returns as soon as the thread has ended or the
\* timeout has run out: the clock cannot pass a pending join's deadline.
\* The controller's poll loop (main.py:298-299) sleeps PollSleep at a time:
\* the clock passes its wake-up time only while the loop would go on
\* sleeping, one step of the clock then standing for several iterations.
PollGoesOn == ~stop_flag /\ is_running(entries[idx])

TimeMayPass(d) ==
    /\ \A c \in Callers : join[c].active =>
          \A t \in now..(now + d - 1) : ~JoinReturns(join[c], t)
    /\ pc = "sleep" => (now + d <= wake \/ PollGoesOn)

Tick(d, limit) ==
    /\ ticks < limit
    /\ TimeMayPass(d)
    /\ now' = now + d
    /\ ticks' = ticks + 1
    /\ wake' = IF pc = "sleep" /\ now + d > wake THEN now + d ELSE wake
    /\ UNCHANGED <<modules, keys, threads, stop_events, last_completed, join, ret, sink, escaped, sesVars>>
    /\ UNCHANGED <<entries, idx, pc, stop_flag, current, gpc, events, calls, stopped_at>>

\* --------------------------------------- the supervisor driven by one caller
\* no battle routine is followed and no screen is searched
NoSession ==
    /\ ses = [pc |-> "off"]
    /\ shot = [pc |-> "off"]

NoController ==
    /\ entries = <<>>
    /\ idx = 1
    /\ pc = "off"
    /\ stop_flag = FALSE
    /\ current = ""
    /\ gpc = "off"
    /\ wake = 0
    /\ events = <<>>
    /\ calls = <<>>
    /\ stopped_at = NoTime

\* BotManager.__init__ (bot_manager.py:9-18), the clock at 0
FreshManager ==
    /\ modules = [n \in Names |-> NotRegistered]
    /\ keys = <<>>
    /\ threads = <<>>
    /\ stop_events = <<>>
    /\ last_completed = [n \in Names |-> NoTime]
    /\ now = 0
    /\ ticks = 0
    /\ join = [c \in Callers |-> NoJoin]
    /\ ret = [c \in Callers |-> "ok"]
    /\ sink = <<>>
    /\ escaped = <<>>

SupInit ==
    /\ FreshManager
    /\ NoController
    /\ NoSession

\* a registration binds the routine and the log function that the call
\* sites of the repository pass for the name (main.py:147-151 and 292,
\* bot_manager.py:127), also when it is a repeated one
CallSite(name, target, log_func) ==
    /\ target = action_map[name]
    /\ log_func = LogNone => name = "campaign"

Register == \E name \in SupNames, target \in Routines, log_func \in LogFuncs :
    /\ CallSite(name, target, log_func)
    /\ register_module("main", name, target, log_func)
    /\ UNCHANGED seqVars
Start == \E name \in SupNames : start_module("main", name) /\ UNCHANGED seqVars
Stop == \E name \in SupNames : stop_module("main", name, DefaultTimeout) /\ UNCHANGED seqVars
StartAll == start_all("main") /\ UNCHANGED seqVars
StopAll == stop_all("main") /\ UNCHANGED seqVars
JoinReturn == join_return("main") /\ UNCHANGED seqVars
MarkCompleted == \E name \in SupNames \cap DOMAIN cooldowns :
    mark_completed("main", name) /\ UNCHANGED seqVars
RunnerReturn == \E t \in 1..Len(threads) : runner_return(t) /\ UNCHANGED seqVars
RunnerException == \E t \in 1..Len(threads), sink_ok \in BOOLEAN :
    runner_exception(t, sink_ok) /\ UNCHANGED seqVars
TimePasses == \E d \in SupDelays : Tick(d, MaxSupTicks)

SupNext ==
    \/ Register
    \/ Start
    \/ Stop
    \/ StartAll
    \/ StopAll
    \/ JoinReturn
    \/ MarkCompleted
    \/ RunnerReturn
    \/ RunnerException
    \/ TimePasses

SupSpec == SupInit /\ [][SupNext]_vars

\* ------------------------------------------ the cooldown record and the clock
CoolMark == \E name \in Names : mark_completed("main", name) /\ UNCHANGED seqVars
CoolTick == \E d \in Delays : Tick(d, MaxTicks)

CoolNext ==
    \/ CoolMark
    \/ CoolTick

CoolSpec == SupInit /\ [][CoolNext]_vars

\* ------------------------------------------------- the sequence controller
\* SequenceController.run, one action per stretch of code between two
\* accesses to state shared with stop(); idx is the position of the for loop.
Emit(e) == events' = Append(events, e)
Called(op, name, c) == calls' = Append(calls, <<op, name, c>>)

OnCooldown_Inverted(name) == get_cooldown_remaining(name) <= 0

OnCooldown(name) == get_cooldown_remaining(name) > 0

\* lines 276-278: the head of the for loop
AfterLoop_ReturnOnBreak(broken) == IF broken THEN "finished" ELSE "done"

\* where control goes when the for loop is left: exhausted or by the break
AfterLoop(broken) == "done"

run_loop ==
    /\ pc = "loop"
    /\ pc' = IF idx > Len(entries) THEN AfterLoop(FALSE)
             ELSE IF stop_flag THEN AfterLoop(TRUE)
             ELSE "cooldown"
    /\ UNCHANGED <<entries, idx, stop_flag, current, gpc, wake, events, calls, stopped_at>>
    /\ UNCHANGED <<supVars, sesVars>>

\* lines 281-286: the cooldown check and the skip
run_cooldown ==
    /\ pc = "cooldown"
    /\ IF OnCooldown(entries[idx])
       THEN /\ events' = events \o << <<"-THREAD_LOG-", "on cooldown", entries[idx]>>,
                                      <<"-THREAD_LOG-", "skipping", entries[idx]>> >>
            /\ idx' = idx + 1
            /\ pc' = "loop"
       ELSE /\ pc' = "prepare"
            /\ UNCHANGED <<events, idx>>
    /\ UNCHANGED <<entries, stop_flag, current, gpc, wake, calls, stopped_at>>
    /\ UNCHANGED <<supVars, sesVars>>

\* lines 289-294: _prepare_window changes nothing the controller reads;
\* the module is registered unless it already is
run_prepare ==
    /\ pc = "prepare"
    /\ IF ~is_registered(entries[idx])
       THEN /\ register_module("run", entries[idx], action_map[entries[idx]], "log")
            /\ Called("register_module", entries[idx], "run")
       ELSE /\ UNCHANGED <<supVars, sesVars>>
            /\ UNCHANGED calls
    /\ pc' = "current"
    /\ UNCHANGED <<entries, idx, stop_flag, current, gpc, wake, events, stopped_at>>

\* lines 295-296
run_current ==
    /\ pc = "current"
    /\ current' = entries[idx]
    /\ Emit(<<"-MODULE_STARTED-", entries[idx]>>)
    /\ pc' = "start"
    /\ UNCHANGED <<entries, idx, stop_flag, gpc, wake, calls, stopped_at>>
    /\ UNCHANGED <<supVars, sesVars>>

\* line 297
run_start ==
    /\ pc = "start"
    /\ start_module("run", entries[idx])
    /\ Called("start_module", entries[idx], "run")
    /\ pc' = "poll"
    /\ UNCHANGED <<entries, idx, stop_flag, current, gpc, wake, events, stopped_at>>

\* line 298: the condition of the poll loop
run_poll ==
    /\ pc = "poll"
    /\ IF PollGoesOn
       THEN pc' = "sleep" /\ wake' = now + PollSleep
       ELSE pc' = "stop" /\ UNCHANGED wake
    /\ UNCHANGED <<entries, idx, stop_flag, current, gpc, events, calls, stopped_at>>
    /\ UNCHANGED <<supVars, sesVars>>

\* line 299: time.sleep(0.2) returns
run_wake ==
    /\ pc = "sleep"
    /\ pc' = "poll"
    /\ UNCHANGED <<entries, idx, stop_flag, current, gpc, wake, events, calls, stopped_at>>
    /\ UNCHANGED <<supVars, sesVars>>

\* line 301 up to the join
run_stop ==
    /\ pc = "stop"
    /\ stop_module("run", entries[idx], DefaultTimeout)
    /\ Called("stop_module", entries[idx], "run")
    /\ pc' = IF join'["run"].active THEN "join" ELSE "mark"
    /\ UNCHANGED <<entries, idx, stop_flag, current, gpc, wake, events, stopped_at>>

\* line 301: the join returns and stop_module clears the handle
run_join ==
    /\ pc = "join"
    /\ join_return("run")
    /\ pc' = "mark"
    /\ UNCHANGED <<entries, idx, stop_flag, current, gpc, wake, events, calls, stopped_at>>

run_mark_UnlessCancelled ==
    /\ pc = "mark"
    /\ IF stop_flag
       THEN UNCHANGED <<supVars, sesVars>> /\ UNCHANGED calls
       ELSE /\ mark_completed("run", entries[idx])
            /\ Called("mark_completed", entries[idx], "run")
    /\ pc' = "ended"
    /\ UNCHANGED <<entries, idx, stop_flag, current, gpc, wake, events, stopped_at>>

\* line 303
run_mark ==
    /\ pc = "mark"
    /\ mark_completed("run", entries[idx])
    /\ Called("mark_completed", entries[idx], "run")
    /\ pc' = "ended"
    /\ UNCHANGED <<entries, idx, stop_flag, current, gpc, wake, events, stopped_at>>

\* line 306, and the step of the for loop
run_ended ==
    /\ pc = "ended"
    /\ Emit(<<"-MODULE_ENDED-", entries[idx]>>)
    /\ idx' = idx + 1
    /\ pc' = "loop"
    /\ UNCHANGED <<entries, stop_flag, current, gpc, wake, calls, stopped_at>>
    /\ UNCHANGED <<supVars, sesVars>>

\* line 307
run_done ==
    /\ pc = "done"
    /\ Emit(<<"-SEQUENCE_DONE-", "">>)
    /\ pc' = "finished"
    /\ UNCHANGED <<entries, idx, stop_flag, current, gpc, wake, calls, stopped_at>>
    /\ UNCHANGED <<supVars, sesVars>>

\* The -STOP- handler of the GUI thread (main.py:320-337).  The event loop
\* has handled the first k events the controller wrote; current_module_name
\* is what the -MODULE_STARTED-, -MODULE_ENDED- and -SEQUENCE_DONE- handlers
\* (main.py:358-377) left after them.
current_module_name(k) ==
    LET life == {i \in 1..k : events[i][1] # "-THREAD_LOG-"}
    IN  IF life = {} THEN ""
        ELSE LET m == CHOOSE i \in life : \A j \in life : j <= i
             IN  IF events[m][1] = "-MODULE_STARTED-" THEN events[m][2] ELSE ""

\* the -STOP- button is enabled until -SEQUENCE_DONE- is handled
StopEnabled(k) == \A i \in 1..k : events[i][1] # "-SEQUENCE_DONE-"

\* lines 321-327: the handler first stops the module it believes current,
\* directly on the supervisor
on_stop ==
    /\ gpc = "idle"
    /\ \E k \in 0..Len(events) :
          /\ StopEnabled(k)
          /\ IF current_module_name(k) # ""
             THEN /\ stop_module("gui", current_module_name(k), DefaultTimeout)
                  /\ Called("stop_module", current_module_name(k), "on_stop")
                  /\ gpc' = IF join'["gui"].active THEN "on_stop_join" ELSE "stop"
             ELSE /\ gpc' = "stop"
                  /\ UNCHANGED calls
                  /\ UNCHANGED <<supVars, sesVars>>
    /\ UNCHANGED <<entries, idx, pc, stop_flag, current, wake, events, stopped_at>>

\* line 323: the join returns and stop_module clears the handle
on_stop_join ==
    /\ gpc = "on_stop_join"
    /\ join_return("gui")
    /\ gpc' = "stop"
    /\ UNCHANGED <<entries, idx, pc, stop_flag, current, wake, events, calls, stopped_at>>

\* SequenceController.stop, called by the handler next (main.py:332-337)
\* line 248
stop_set ==
    /\ gpc = "stop"
    /\ stop_flag' = TRUE
    /\ stopped_at' = now
    /\ gpc' = "check"
    /\ UNCHANGED <<entries, idx, pc, current, wake, events, calls>>
    /\ UNCHANGED <<supVars, sesVars>>

\* line 249
stop_check ==
    /\ gpc = "check"
    /\ gpc' = IF current # "" THEN "call" ELSE "returned"
    /\ UNCHANGED <<entries, idx, pc, stop_flag, current, wake, events, calls, stopped_at>>
    /\ UNCHANGED <<supVars, sesVars>>

\* line 251 up to the join
stop_call ==
    /\ gpc = "call"
    /\ stop_module("gui", current, DefaultTimeout)
    /\ Called("stop_module", current, "gui")
    /\ gpc' = IF join'["gui"].active THEN "join" ELSE "returned"
    /\ UNCHANGED <<entries, idx, pc, stop_flag, current, wake, events, stopped_at>>

\* line 251: the join returns and stop_module clears the handle
stop_join ==
    /\ gpc = "join"
    /\ join_return("gui")
    /\ gpc' = "returned"
    /\ UNCHANGED <<entries, idx, pc, stop_flag, current, wake, events, calls, stopped_at>>

\* the modules selected in the list box, in its order (main.py:153-174, 214)
RECURSIVE Selections(_)
Selections(i) ==
    IF i > Len(listbox) THEN {<<>>}
    ELSE LET rest == Selections(i + 1)
         IN  rest \cup {<<listbox[i]>> \o r : r \in rest}

\* the supervisor as earlier sequences of the same GUI session left it:
\* a module that was run is registered, stopped and marked completed
\* (only the modules of this sequence are followed)
SeqInit ==
    /\ entries \in Selections(1)
    /\ \E reg \in SUBSET Names :
          /\ modules = [n \in Names |->
                IF n \in reg
                THEN [registered |-> TRUE, target |-> action_map[n], log_func |-> "log",
                      thread |-> 0, stop_event |-> 0]
                ELSE NotRegistered]
          /\ keys = SelectSeq(listbox, LAMBDA n : n \in reg)
          /\ last_completed \in [Names -> {NoTime} \cup {StartTime - a : a \in Ages}]
          /\ \A n \in Names : last_completed[n] # NoTime => n \in reg
          /\ \A n \in reg : \E i \in 1..Len(entries) : entries[i] = n
    /\ threads = <<>>
    /\ stop_events = <<>>
    /\ now = StartTime
    /\ ticks = 0
    /\ join = [c \in Callers |-> NoJoin]
    /\ ret = [c \in Callers |-> "ok"]
    /\ sink = <<>>
    /\ escaped = <<>>
    /\ idx = 1
    /\ pc = "loop"
    /\ stop_flag = FALSE
    /\ current = ""
    /\ gpc = "idle"
    /\ wake = 0
    /\ events = <<>>
    /\ calls = <<>>
    /\ stopped_at = NoTime
    /\ NoSession

\* the controller only reads is_alive: how a routine ends makes no
\* difference to it, and the routines of a sequence are followed to their
\* return
SeqRunnerReturn == \E t \in 1..Len(threads) : runner_return(t) /\ UNCHANGED seqVars
SeqTimePasses == \E d \in SeqDelays : Tick(d, MaxSeqTicks)

SeqNext ==
    \/ run_loop
    \/ run_cooldown
    \/ run_prepare
    \/ run_current
    \/ run_start
    \/ run_poll
    \/ run_wake
    \/ run_stop
    \/ run_join
    \/ run_mark
    \/ run_ended
    \/ run_done
    \/ on_stop
    \/ on_stop_join
    \/ stop_set
    \/ stop_check
    \/ stop_call
    \/ stop_join
    \/ SeqRunnerReturn
    \/ SeqTimePasses

SeqSpec == SeqInit /\ [][SeqNext]_vars

\* ----------------------------------------- the controller against the clock
\* _prepare_window (main.py:255-273) calls close_popup_if_present twice; with
\* no popup on screen each call sleeps 3 times 0.3 s (popup.py:38-88)
PrepareTime == 2

\* Where the threads of the controller spend time: run in _prepare_window
\* (line 289), in time.sleep (line 299) until it wakes and in thread.join
\* until its deadline; the GUI thread in thread.join.  d is the time one of
\* these waits still takes.
Waits(d) ==
    \/ pc = "prepare" /\ d = PrepareTime
    \/ pc = "sleep" /\ d = wake - now
    \/ \E c \in Callers : join[c].active /\ d = join[c].deadline - now

\* Every other step takes no time: the clock stands while run or the GUI
\* thread has such a step to take.  The GUI thread is idle until -STOP- is
\* pressed and after its handler has returned.
RunWaits == pc \in {"prepare", "sleep", "join", "finished"}
GuiWaits == gpc \in {"idle", "on_stop_join", "join", "returned"}

Elapse == \E d \in 1..DefaultTimeout :
    Waits(d) /\ RunWaits /\ GuiWaits /\ Tick(d, MaxTimedTicks)

SeqTimedNext ==
    \/ run_loop
    \/ run_cooldown
    \/ run_prepare
    \/ run_current
    \/ run_start
    \/ run_poll
    \/ run_wake
    \/ run_stop
    \/ run_join
    \/ run_mark
    \/ run_ended
    \/ run_done
    \/ on_stop
    \/ on_stop_join
    \/ stop_set
    \/ stop_check
    \/ stop_call
    \/ stop_join
    \/ SeqRunnerReturn
    \/ Elapse

SeqTimedSpec == SeqInit /\ [][SeqTimedNext]_vars

\* ------------------------------------ locate_all_on_screen (utils/screen.py)
\* The cv2 branch, lines 99-127.  res maps each location whose match value
\* reached the threshold to that value, in hundredths; a location is the
\* top-left corner <<x, y>> of the match.
BucketSize == 30
Confs == {80, 90, 95}
TemplateSizes == {<<0, 0>>, <<41, 21>>}
ScreenPoints == << <<10, 10>>, <<12, 11>>, <<500, 500>>, <<30, 10>>, <<100, 40>>,
                  <<200, 70>>, <<300, 100>>, <<400, 130>>, <<60, 200>> >>
Points == {ScreenPoints[i] : i \in 1..MaxPoints}

\* line 100: np.where lists the locations row by row, that is by y, then x
Before(p, q) == p[2] < q[2] \/ (p[2] = q[2] /\ p[1] < q[1])

RECURSIVE ScanOrder(_)
ScanOrder(locs) ==
    IF locs = {} THEN <<>>
    ELSE LET first == CHOOSE p \in locs : \A q \in locs \ {p} : Before(p, q)
         IN  <<first>> \o ScanOrder(locs \ {first})

\* line 111
cluster_key(pt) == <<pt[1] \div BucketSize, pt[2] \div BucketSize>>

Better_Never(conf, held) == FALSE

\* line 112: a later match replaces the one held for its bucket
Better(conf, held) == conf > held

\* lines 107-113: clusters is the dict, in insertion order
RECURSIVE Cluster(_, _, _)
Cluster(locs, res, clusters) ==
    IF locs = <<>> THEN clusters
    ELSE LET pt == Head(locs)
             entry == [key |-> cluster_key(pt), x |-> pt[1], y |-> pt[2], conf |-> res[pt]]
             at == {i \in 1..Len(clusters) : clusters[i].key = entry.key}
         IN  IF at = {}
             THEN Cluster(Tail(locs), res, Append(clusters, entry))
             ELSE LET i == CHOOSE i \in at : TRUE
                  IN  IF Better(entry.conf, clusters[i].conf)
                      THEN Cluster(Tail(locs), res, [clusters EXCEPT ![i] = entry])
                      ELSE Cluster(Tail(locs), res, clusters)

\* lines 116-119: the centre of each match kept
Centers(clusters, tw, th) ==
    [i \in 1..Len(clusters) |-> <<clusters[i].x + tw \div 2, clusters[i].y + th \div 2>>]

\* lines 122-123
Capped(results) ==
    IF Len(results) > ClusterCap THEN SubSeq(results, 1, ClusterCap) ELSE results

ShotInit ==
    /\ FreshManager
    /\ NoController
    /\ ses = [pc |-> "off"]
    /\ \E locs \in SUBSET Points, size \in TemplateSizes :
          \E res \in [locs -> Confs] :
             shot = [pc |-> "screenshot", res |-> res, tw |-> size[1], th |-> size[2],
                     clusters |-> <<>>, results |-> <<>>]

locate_all_on_screen ==
    /\ shot.pc = "screenshot"
    /\ LET clusters == Cluster(ScanOrder(DOMAIN shot.res), shot.res, <<>>)
       IN  shot' = [shot EXCEPT !.pc = "returned",
                                !.clusters = clusters,
                                !.results = Capped(Centers(clusters, shot.tw, shot.th))]
    /\ UNCHANGED <<supVars, seqVars, ses>>

ShotNext == locate_all_on_screen

ShotSpec == ShotInit /\ [][ShotNext]_vars

\* ------------------------------------- the battle routines (arena_loop)
\* arena_loop (src/modules/arena.py:68-384) and tag_arena_loop
\* (src/modules/tag_arena.py:46-364) are the same routine but for their
\* templates and for the guard of the drag fallback; line numbers are those
\* of arena.py.  One action is one stretch of the routine between two
\* answers of the environment.  The templates of the repository are found
\* by _find_template, RefreshButton.png excepted: refresh_file tells whether
\* it is.  stop_event is the Event the supervisor passed to the routine.
SessionModules == {"arena", "tag_arena"}
Slice == BattleOverWait \div 2
Screens == { <<>>,
             << <<105, 102>>, <<300, 300>> >>,
             << <<100, 100>>, <<300, 300>>, <<100, 130>>, <<500, 100>> >> }
FindResults == {"clicked", "failed"}
NavCycles == 5
BattleCycles == 6
CallResults == {"ok", "raised"}

Abs(n) == IF n < 0 THEN -n ELSE n

too_close_AnyAxis(c, used) ==
    \E i \in 1..Len(used) :
        Abs(c[1] - used[i][1]) < Radius \/ Abs(c[2] - used[i][2]) < Radius

\* line 196
too_close(c, used) ==
    \E i \in 1..Len(used) :
        Abs(c[1] - used[i][1]) < Radius /\ Abs(c[2] - used[i][2]) < Radius

\* lines 192-201: the first candidate that is not too close, or None
RECURSIVE FirstFresh(_, _)
FirstFresh(candidates, used) ==
    IF candidates = <<>> THEN None
    ELSE IF ~too_close(Head(candidates), used) THEN Head(candidates)
    ELSE FirstFresh(Tail(candidates), used)

\* lines 237-238, 262-263, 300-301: after a recovery the first candidate
FirstOf(candidates) == IF candidates # <<>> THEN Head(candidates) ELSE None

Recorded_NoEviction(used, pos) == Append(used, pos)

\* lines 329-331
Recorded(used, pos) ==
    LET all == Append(used, pos)
    IN  IF Len(all) > UsedCapacity
        THEN SubSeq(all, Len(all) - UsedCapacity + 1, Len(all))
        ELSE all

find_and_click_with_popup_retry_ExtraCycle(cycle, max_cycles, tpl, loc, call) ==
    IF cycle = 0 /\ ~tpl THEN "failed"
    ELSE IF loc /\ call = "ok" THEN "clicked"
    ELSE IF cycle + 1 > max_cycles THEN "failed"
    ELSE "again"

\* lines 111-135: one cycle of find_and_click_with_popup_retry, which has
\* run `cycle` cycles already; tpl: the template file exists (looked up once,
\* before the first cycle), loc: the template is on screen, call: the click.
\* A click that raises is logged and the cycle goes on to the overlay and
\* the sleep; the signal is not read.
find_and_click_with_popup_retry(cycle, max_cycles, tpl, loc, call) ==
    IF cycle = 0 /\ ~tpl THEN "failed"
    ELSE IF loc /\ call = "ok" THEN "clicked"
    ELSE IF cycle + 1 >= max_cycles THEN "failed"
    ELSE "again"

SesInit ==
    /\ FreshManager
    /\ NoController
    /\ shot = [pc |-> "off"]
    /\ \E m \in SessionModules, f \in BOOLEAN :
          ses = [module |-> m, refresh_file |-> f, pc |-> "ensure_homescreen",
                 stop_event |-> FALSE, nav |-> 1, battles_done |-> 0,
                 used_battle_positions |-> <<>>, candidates |-> <<>>, chosen |-> None,
                 refresh |-> "unseen", di |-> 0, acts |-> <<>>, clicks |-> 0,
                 elapsed_wait |-> 0, slept |-> 0, cancelled_for |-> 0, ended |-> "",
                 cycle |-> 0, turn |-> 0, home |-> "not_run", stats |-> "none"]

Frame == UNCHANGED <<supVars, seqVars, shot>>

Live(p) == p \notin {"returned", "raised", "off"}

\* the supervisor's stop_module sets the event (bot_manager.py:73-74)
cancel ==
    /\ Live(ses.pc)
    /\ ~ses.stop_event
    /\ ses' = [ses EXCEPT !.stop_event = TRUE, !.cancelled_for = 0]
    /\ Frame

Polling_Forever(stop_event) == TRUE

\* lines 87 and 367: the condition of the loops that look for the homescreen
Polling(stop_event) == ~stop_event

\* lines 85-109 and 139-141: one turn of the loop of ensure_homescreen
ensure_homescreen ==
    /\ ses.pc = "ensure_homescreen"
    /\ IF ~Polling(ses.stop_event)
       THEN ses' = [ses EXCEPT !.pc = "returned", !.ended = "no_homescreen",
                               !.turn = 0]
       ELSE \E seen \in {"homescreen", "back", "popup", "nothing"}, call \in CallResults :
               ses' = IF seen = "homescreen"
                      THEN [ses EXCEPT !.pc = "navigate", !.turn = 0]
                      ELSE IF seen = "back" /\ call = "raised"
                      THEN [ses EXCEPT !.pc = "raised", !.ended = "exception",
                                       !.turn = 0]
                      ELSE [ses EXCEPT !.turn = 1 - ses.turn]
    /\ Frame

\* lines 143-160: one cycle of one of the three steps Battle, Arena,
\* Classic Arena; a step that fails returns from the routine at once
navigate ==
    /\ ses.pc = "navigate"
    /\ \E tpl \in BOOLEAN, loc \in BOOLEAN, call \in CallResults :
          LET found == find_and_click_with_popup_retry(ses.cycle, NavCycles, tpl, loc, call)
          IN  ses' = IF found = "again" THEN [ses EXCEPT !.cycle = ses.cycle + 1]
                     ELSE IF found = "failed"
                     THEN [ses EXCEPT !.pc = "returned", !.ended = "navigation",
                                      !.cycle = 0]
                     ELSE IF ses.nav < 3
                     THEN [ses EXCEPT !.nav = ses.nav + 1, !.cycle = 0]
                     ELSE [ses EXCEPT !.pc = "loop", !.cycle = 0]
    /\ Frame

Continue_OffByOne(stop_event, battles_done) == ~stop_event /\ battles_done <= BattleCap

\* line 165: the condition of the battle loop
Continue(stop_event, battles_done) == ~stop_event /\ battles_done < BattleCap

\* line 165: the head of the battle loop
loop_head ==
    /\ ses.pc = "loop"
    /\ ses' = IF Continue(ses.stop_event, ses.battles_done)
              THEN [ses EXCEPT !.pc = "locate", !.acts = <<>>, !.refresh = "unseen",
                               !.di = 0, !.chosen = None, !.candidates = <<>>,
                               !.stats = "none"]
              ELSE [ses EXCEPT !.pc = "return_home", !.stats = "none",
                               !.ended = IF ses.stop_event THEN "cancelled" ELSE "cap"]
    /\ Frame

\* lines 166-190: the candidates on screen
locate ==
    /\ ses.pc = "locate"
    /\ \E candidates \in Screens :
          ses' = [ses EXCEPT !.pc = "select", !.candidates = candidates]
    /\ Frame

\* lines 192-203
select ==
    /\ ses.pc = "select"
    /\ ses' = [ses EXCEPT !.chosen = FirstFresh(ses.candidates, ses.used_battle_positions),
                          !.pc = IF FirstFresh(ses.candidates, ses.used_battle_positions) # None
                                 THEN "click" ELSE "ladder_popup"]
    /\ Frame

\* lines 204-220: an overlay is dismissed and the candidates are read again
ladder_popup ==
    /\ ses.pc = "ladder_popup"
    /\ \E closed \in BOOLEAN, candidates \in Screens :
          ses' = IF closed
                 THEN [ses EXCEPT !.pc = "ladder_refresh",
                                  !.acts = Append(ses.acts, "dismiss"),
                                  !.candidates = candidates,
                                  !.chosen = FirstFresh(candidates, ses.used_battle_positions)]
                 ELSE [ses EXCEPT !.pc = "ladder_refresh"]
    /\ Frame

\* lines 221-240: the refresh button, if its template exists and it is on
\* screen; a click that raises is logged and clears nothing
ladder_refresh ==
    /\ ses.pc = "ladder_refresh"
    /\ \E rloc \in BOOLEAN, call \in CallResults, candidates \in Screens :
          ses' = IF ses.chosen # None THEN [ses EXCEPT !.pc = "ladder_scroll"]
                 ELSE IF ~ses.refresh_file
                 THEN [ses EXCEPT !.pc = "ladder_scroll", !.refresh = "no_template"]
                 ELSE IF ~rloc
                 THEN [ses EXCEPT !.pc = "ladder_scroll", !.refresh = "not_located"]
                 ELSE IF call = "raised"
                 THEN [ses EXCEPT !.pc = "ladder_scroll", !.refresh = "click_failed",
                                  !.acts = Append(ses.acts, "refresh_failed")]
                 ELSE [ses EXCEPT !.pc = "ladder_scroll", !.refresh = "clicked",
                                  !.acts = Append(ses.acts, "refresh"),
                                  !.used_battle_positions = <<>>,
                                  !.candidates = candidates,
                                  !.chosen = FirstOf(candidates)]
    /\ Frame

\* lines 241-264: one page down (a drag if the key press raises); the used
\* positions are cleared whatever became of the gesture
ladder_scroll ==
    /\ ses.pc = "ladder_scroll"
    /\ \E call \in CallResults, candidates \in Screens :
          ses' = IF ses.chosen # None THEN [ses EXCEPT !.pc = "ladder_drag"]
                 ELSE [ses EXCEPT !.pc = "ladder_drag",
                                  !.acts = Append(ses.acts, IF call = "ok" THEN "scroll"
                                                            ELSE "scroll_failed"),
                                  !.used_battle_positions = <<>>,
                                  !.candidates = candidates,
                                  !.chosen = FirstOf(candidates)]
    /\ Frame

DragFallback_Always(module, refresh_file) == TRUE

\* arena.py:266 enters the drag fallback whenever nothing is chosen,
\* tag_arena.py:246 only if RefreshButton.png has no template file
DragFallback(module, refresh_file) == module = "arena" \/ ~refresh_file

\* lines 265-303: one turn of the loop of at most 4 drags
ladder_drag ==
    /\ ses.pc = "ladder_drag"
    /\ \E call \in CallResults, candidates \in Screens :
          ses' = IF \/ ses.chosen # None
                    \/ ~DragFallback(ses.module, ses.refresh_file)
                    \/ ses.di >= MaxDrags
                    \/ ses.stop_event
                 THEN [ses EXCEPT !.pc = "ladder_end"]
                 ELSE [ses EXCEPT !.di = ses.di + 1,
                                  !.acts = Append(ses.acts, IF call = "ok" THEN "drag"
                                                            ELSE "drag_failed"),
                                  !.used_battle_positions = <<>>,
                                  !.candidates = candidates,
                                  !.chosen = FirstOf(candidates),
                                  !.pc = IF candidates # <<>> THEN "ladder_end"
                                         ELSE "ladder_drag"]
    /\ Frame

\* lines 305-307
ladder_end ==
    /\ ses.pc = "ladder_end"
    /\ ses' = IF ses.chosen = None
              THEN [ses EXCEPT !.pc = "return_home", !.ended = "no_battles"]
              ELSE [ses EXCEPT !.pc = "click"]
    /\ Frame

\* lines 309-333: the click on the candidate (a first click that raises is
\* repeated outside any try) and the record of its position
click_candidate ==
    /\ ses.pc = "click"
    /\ \E first \in CallResults, second \in CallResults :
          ses' = IF first = "raised" /\ second = "raised"
                 THEN [ses EXCEPT !.pc = "raised", !.ended = "exception"]
                 ELSE [ses EXCEPT !.pc = "click_start",
                                  !.clicks = ses.clicks + 1,
                                  !.used_battle_positions =
                                      Recorded(ses.used_battle_positions, ses.chosen)]
    /\ Frame

AfterStart_Continue(found) == "over_head"

\* lines 336-338: a start step that failed breaks out of the battle loop
AfterStart(found) == IF found = "failed" THEN "return_home" ELSE "over_head"

\* lines 335-341: one cycle of the start step
click_start ==
    /\ ses.pc = "click_start"
    /\ \E tpl \in BOOLEAN, loc \in BOOLEAN, call \in CallResults :
          LET found == find_and_click_with_popup_retry(ses.cycle, BattleCycles, tpl, loc, call)
          IN  ses' = IF found = "again" THEN [ses EXCEPT !.cycle = ses.cycle + 1]
                     ELSE IF found = "failed"
                     THEN [ses EXCEPT !.pc = AfterStart(found), !.ended = "start_failed",
                                      !.cycle = 0]
                     ELSE [ses EXCEPT !.pc = AfterStart(found), !.elapsed_wait = 0,
                                      !.cycle = 0]
    /\ Frame

\* line 342: the head of the battle-over poll.  elapsed_wait is read only
\* inside the poll (lines 347 and 352) and is not followed once it is left.
over_head ==
    /\ ses.pc = "over_head"
    /\ ses' = IF ses.stop_event
              THEN [ses EXCEPT !.pc = "click_return", !.slept = 0, !.cancelled_for = 0,
                               !.elapsed_wait = 0]
              ELSE [ses EXCEPT !.pc = "over_sleep", !.slept = 0]
    /\ Frame

Sleeping_Interruptible(slept, stop_event) == slept < BattleOverWait /\ ~stop_event

\* line 343: time.sleep(30) goes on until its 30 seconds are over
Sleeping(slept, stop_event) == slept < BattleOverWait

\* line 343: a slice of the sleep passes; cancelled_for is the time spent
\* in the poll since the event was set
over_sleep ==
    /\ ses.pc = "over_sleep"
    /\ Sleeping(ses.slept, ses.stop_event)
    /\ ses' = [ses EXCEPT !.slept = ses.slept + Slice,
                          !.cancelled_for = IF ses.stop_event
                                            THEN ses.cancelled_for + Slice ELSE 0]
    /\ Frame

\* lines 344-352: the sleep has returned; the battle-over button is looked
\* for and clicked (outside any try)
over_check ==
    /\ ses.pc = "over_sleep"
    /\ ~Sleeping(ses.slept, ses.stop_event)
    /\ \E seen \in BOOLEAN, call \in CallResults :
          /\ ~seen => ses.elapsed_wait + BattleOverWait < MaxWaits * BattleOverWait
          /\ ses' = IF ~seen
                    THEN [ses EXCEPT !.pc = "over_head",
                                     !.elapsed_wait = ses.elapsed_wait + BattleOverWait]
                    ELSE IF call = "raised"
                    THEN [ses EXCEPT !.pc = "raised", !.ended = "exception"]
                    ELSE [ses EXCEPT !.pc = "click_return", !.slept = 0, !.cancelled_for = 0,
                                     !.elapsed_wait = 0]
    /\ Frame

AfterReturn_Abort(found) == IF found = "failed" THEN "return_home" ELSE "count"

\* lines 355-360: both branches of the return step only log and go on to
\* the count
AfterReturn(found) == "count"

\* lines 354-358: one cycle of the return step; stats is "stuck" if the
\* step failed to leave the battle statistics, "returned" if it clicked
click_return ==
    /\ ses.pc = "click_return"
    /\ \E tpl \in BOOLEAN, loc \in BOOLEAN, call \in CallResults :
          LET found == find_and_click_with_popup_retry(ses.cycle, BattleCycles, tpl, loc, call)
          IN  ses' = IF found = "again" THEN [ses EXCEPT !.cycle = ses.cycle + 1]
                     ELSE [ses EXCEPT !.pc = AfterReturn(found), !.cycle = 0,
                                      !.stats = IF found = "failed" THEN "stuck"
                                                ELSE "returned"]
    /\ Frame

\* lines 360-362
count_battle ==
    /\ ses.pc = "count"
    /\ ses' = [ses EXCEPT !.pc = "loop", !.battles_done = ses.battles_done + 1]
    /\ Frame

\* lines 364-381: one turn of the loop that goes back to the homescreen
return_home ==
    /\ ses.pc = "return_home"
    /\ IF ~Polling(ses.stop_event)
       THEN ses' = [ses EXCEPT !.pc = "exit", !.turn = 0,
                               !.home = IF ses.home = "not_run" THEN "skipped"
                                        ELSE ses.home]
       ELSE \E seen \in {"homescreen", "back", "nothing"}, call \in CallResults :
               ses' = IF seen = "homescreen"
                      THEN [ses EXCEPT !.pc = "exit", !.home = "seen", !.turn = 0]
                      ELSE IF seen = "back" /\ call = "raised"
                      THEN [ses EXCEPT !.pc = "raised", !.ended = "exception",
                                       !.home = "polling", !.turn = 0]
                      ELSE [ses EXCEPT !.home = "polling", !.turn = 1 - ses.turn]
    /\ Frame

\* lines 383-384
exit ==
    /\ ses.pc = "exit"
    /\ ses' = [ses EXCEPT !.pc = "returned"]
    /\ Frame

\* the steps of the routine's thread
SesRun ==
    \/ ensure_homescreen
    \/ navigate
    \/ loop_head
    \/ locate
    \/ select
    \/ ladder_popup
    \/ ladder_refresh
    \/ ladder_scroll
    \/ ladder_drag
    \/ ladder_end
    \/ click_candidate
    \/ click_start
    \/ over_head
    \/ over_sleep
    \/ over_check
    \/ click_return
    \/ count_battle
    \/ return_home
    \/ exit

SesNext ==
    \/ cancel
    \/ SesRun

SesSpec == SesInit /\ [][SesNext]_vars

\* the routine's thread is scheduled as long as it has not ended
SesLiveSpec == SesSpec /\ WF_vars(SesRun)

TypeOK ==
    /\ Len(threads) = Len(stop_events)
    /\ Len(threads) <= MaxRuns
    /\ \A n \in Names : modules[n].thread \in 0..Len(threads)

\* ================================================================ properties
ThreadsOf(ths, name) == {t \in 1..Len(ths) : ths[t].name = name}

\* is_running(name) in the state a step leads to
RunningNext(name) ==
    /\ modules'[name].registered
    /\ modules'[name].thread # 0
    /\ threads'[modules'[name].thread].alive

\* C1: start(name) on a module whose execution handle is live changes
\* nothing: the stored handle and signal stay the same, no signal is touched
\* and no execution of the routine is added (start_module and start_all).
C1_StartWhileRunningIsNoOp ==
    [][\A name \in Names :
          (is_running(name) /\ (start_module("main", name) \/ start_all("main")))
          => /\ modules'[name] = modules[name]
             /\ ThreadsOf(threads', name) = ThreadsOf(threads, name)
             /\ \A t \in ThreadsOf(threads, name) : threads'[t] = threads[t]
             /\ \A e \in 1..Len(stop_events) : stop_events'[e] = stop_events[e]]_vars

C1_Witness ==
    /\ ret["main"] = "already_running"
    /\ \E name \in Names : is_running(name) /\ Cardinality(ThreadsOf(threads, name)) = 1

\* C2: a start that follows a stop launches the run with a signal that no
\* earlier run holds and that is unset, whatever the state of the signals of
\* the earlier runs; the new thread polls that new signal.
C2_RestartGetsFreshSignal ==
    [][\A name \in Names :
          (start_module("main", name) /\ is_registered(name) /\ ~is_running(name))
          => LET e == modules'[name].stop_event
                 t == modules'[name].thread
             IN  /\ e \notin 1..Len(stop_events)
                 /\ \A u \in 1..Len(threads) : threads[u].stop_event # e
                 /\ stop_events'[e] = FALSE
                 /\ threads'[t].stop_event = e
                 /\ threads'[t].alive
                 /\ \A u \in 1..Len(stop_events) : stop_events'[u] = stop_events[u]]_vars

\* the first run of arena was stopped (its signal is set), the second run is
\* live with its own signal unset
C2_Witness ==
    /\ Len(threads) = 2
    /\ threads[1].name = "arena" /\ threads[2].name = "arena"
    /\ stop_events[1] /\ ~stop_events[2]
    /\ modules["arena"].stop_event = 2
    /\ is_running("arena")
    /\ ret["main"] = "ok"

\* C3: stop on a running module sets its signal and joins with a deadline of
\* now + timeout; the clock never passes the deadline of a pending join; when
\* the join returns the handle and the signal are cleared, the call returns
\* normally and is_running is false, also when the thread is still alive.
C3_StopBoundedAndClears ==
    [][/\ \A name \in Names :
            (stop_module("main", name, DefaultTimeout) /\ is_running(name))
            => /\ stop_events'[modules[name].stop_event]
               /\ join'["main"].active
               /\ join'["main"].thread = modules[name].thread
               /\ join'["main"].deadline = now + DefaultTimeout
       /\ \A c \in Callers : join[c].active => now' <= join[c].deadline
       /\ (join["main"].active /\ join["main"].rest = <<>> /\ ~join'["main"].active)
            => /\ modules'[join["main"].name].thread = 0
               /\ modules'[join["main"].name].stop_event = 0
               /\ ~RunningNext(join["main"].name)
               /\ ret'["main"] = "ok"]_vars

\* the stop timed out: the call has returned, the stopped thread is alive
C3_Witness ==
    /\ ret["main"] = "ok"
    /\ ~join["main"].active
    /\ \E t \in 1..Len(threads) :
          /\ threads[t].alive
          /\ stop_events[t]
          /\ modules[threads[t].name].thread = 0
          /\ ~is_running(threads[t].name)
          /\ now >= DefaultTimeout

\* C4: a failure of a routine ends its thread inside _runner: the thread is
\* no longer alive (is_running is false for a module whose handle it is), no
\* exception leaves _runner, also when the log function raises, the outcome
\* of the caller's last call is untouched, and the log function, when there
\* is one, is called once with the failure.
C4_FailureCapturedAndLogged ==
    [][\A t \in 1..Len(threads), sink_ok \in BOOLEAN :
          (threads' # threads /\ runner_exception(t, sink_ok))
          => /\ ~threads'[t].alive
             /\ modules[threads[t].name].thread = t => ~RunningNext(threads[t].name)
             /\ escaped' = <<>>
             /\ ret' = ret
             /\ join' = join
             /\ sink' = IF threads[t].log_func = LogNone THEN sink
                        ELSE Append(sink, <<"exception", threads[t].name,
                                            IF sink_ok THEN "returned" ELSE "raised">>)]_vars

\* a routine failed and the log function raised while reporting it
C4_Witness ==
    \E i \in 1..Len(sink) :
        /\ sink[i][3] = "raised"
        /\ \E t \in ThreadsOf(threads, sink[i][2]) : ~threads[t].alive
        /\ escaped = <<>>

\* C5: a failure of the routine of one module changes nothing of the other
\* modules (registration, handle, signal, running status, their threads) and
\* nothing of the cooldown record.
C5_FailureIsIsolated ==
    [][\A t \in 1..Len(threads), sink_ok \in BOOLEAN :
          (threads' # threads /\ runner_exception(t, sink_ok))
          => /\ modules' = modules
             /\ keys' = keys
             /\ stop_events' = stop_events
             /\ last_completed' = last_completed
             /\ \A u \in 1..Len(threads) : u # t => threads'[u] = threads[u]
             /\ \A n \in Names : n # threads[t].name => (RunningNext(n) <=> is_running(n))]_vars

\* campaign failed while arena, marked completed before, goes on running
C5_Witness ==
    /\ \E i \in 1..Len(sink) : sink[i][2] = "campaign"
    /\ is_running("arena")
    /\ ~is_running("campaign")
    /\ last_completed["arena"] # NoTime

\* C6: register on a name that is registered raises and changes nothing: the
\* routine, the log function, the handle and the signal of the name are kept.
C6_DuplicateRegisterFails ==
    [][\A name \in Names, target \in Routines, log_func \in LogFuncs :
          (is_registered(name) /\ register_module("main", name, target, log_func))
          => /\ ret'["main"] = "ValueError"
             /\ modules' = modules
             /\ keys' = keys
             /\ threads' = threads
             /\ stop_events' = stop_events]_vars

\* a second register of a running module was refused
C6_Witness ==
    /\ ret["main"] = "ValueError"
    /\ \E name \in Names : is_registered(name) /\ is_running(name)

Max(a, b) == IF a >= b THEN a ELSE b

Configured(name) == name \in DOMAIN cooldowns /\ cooldowns[name] > 0

\* C7: get_cooldown_remaining is 0 for a module without a configured
\* cooldown and for one never marked completed, and otherwise
\* max(0, duration - (now - last completion)).
C7_CooldownRemainingValue ==
    \A name \in Names :
        get_cooldown_remaining(name) =
            IF ~Configured(name) \/ last_completed[name] = NoTime THEN 0
            ELSE Max(0, cooldowns[name] - (now - last_completed[name]))

\* arena's cooldown has run out, tag_arena is in the middle of its own,
\* campaign was marked completed and has none
C7_Witness ==
    /\ last_completed["arena"] # NoTime /\ get_cooldown_remaining("arena") = 0
    /\ get_cooldown_remaining("tag_arena") > 0
    /\ get_cooldown_remaining("tag_arena") < cooldowns["tag_arena"]
    /\ last_completed["campaign"] # NoTime
    /\ last_completed["campaign"] < now

\* get_cooldown_remaining(name) in the state a step leads to
RemainingNext(name) == Remaining(CooldownDuration(name), last_completed'[name], now')

\* C8: for a module with cooldown d the remaining time is 0 before any
\* mark_completed, within [0, d] always and right after a mark_completed,
\* does not grow while the clock advances without a new mark_completed, and
\* is 0 once d has elapsed.
C8_CooldownBoundedAndDecreasing ==
    [][\A name \in Names :
          LET d == IF Configured(name) THEN cooldowns[name] ELSE 0
          IN  /\ last_completed[name] = NoTime => get_cooldown_remaining(name) = 0
              /\ get_cooldown_remaining(name) >= 0
              /\ get_cooldown_remaining(name) <= d
              /\ RemainingNext(name) >= 0
              /\ RemainingNext(name) <= d
              /\ last_completed'[name] = last_completed[name]
                    => RemainingNext(name) <= get_cooldown_remaining(name)
              /\ (last_completed'[name] # NoTime /\ now' - last_completed'[name] >= d)
                    => RemainingNext(name) = 0]_vars

\* tag_arena went through a part of its cooldown, arena through all of it
\* and was then marked completed again
C8_Witness ==
    /\ get_cooldown_remaining("arena") = cooldowns["arena"]
    /\ now >= cooldowns["arena"]
    /\ get_cooldown_remaining("tag_arena") = cooldowns["tag_arena"] - cooldowns["arena"]

SkippedIn(evs, name) ==
    \E k \in 1..Len(evs) : evs[k] = <<"-THREAD_LOG-", "skipping", name>>

EmittedFor(evs, name) ==
    \E k \in 1..Len(evs) : evs[k][1] \in {"-MODULE_STARTED-", "-MODULE_ENDED-"} /\ evs[k][2] = name

CalledFor(cs, name) == \E k \in 1..Len(cs) : cs[k][2] = name

\* C9: at an entry whose cooldown remaining is positive the controller only
\* logs the skip and moves to the next entry; a skipped module is never
\* registered, started, stopped or marked completed by the controller (by
\* run or by stop()), has no thread, and no module-started or module-ended
\* event is emitted for it.
C9_SkipOnCooldown ==
    [][/\ (pc = "cooldown" /\ pc' # pc /\ get_cooldown_remaining(entries[idx]) > 0)
            => /\ pc' = "loop"
               /\ idx' = idx + 1
               /\ events' = events \o << <<"-THREAD_LOG-", "on cooldown", entries[idx]>>,
                                         <<"-THREAD_LOG-", "skipping", entries[idx]>> >>
               /\ UNCHANGED <<modules, keys, threads, stop_events, last_completed,
                              calls, current, join>>
       /\ \A name \in Names :
            SkippedIn(events', name)
            => /\ ~CalledFor(calls', name)
               /\ ~EmittedFor(events', name)
               /\ ThreadsOf(threads', name) = {}
               /\ current' # name]_vars

\* arena, never completed, was run and ended; tag_arena, completed 10 s
\* before the sequence, was skipped; the sequence is done
C9_Witness ==
    /\ pc = "finished"
    /\ entries = <<"arena", "tag_arena">>
    /\ SkippedIn(events, "tag_arena")
    /\ last_completed["tag_arena"] = StartTime - 10
    /\ ~SkippedIn(events, "arena")
    /\ \E k \in 1..Len(events) : events[k] = <<"-MODULE_ENDED-", "arena">>
    /\ ~stop_flag
    /\ events[Len(events)] = <<"-SEQUENCE_DONE-", "">>

\* C10: the sequence-done event is emitted exactly when run finishes, once,
\* and it is the last event of the run: no module-ended (or other) event
\* follows it.
C10_SequenceDoneOnceAndLast ==
    /\ pc = "finished" => (events # <<>> /\ events[Len(events)] = <<"-SEQUENCE_DONE-", "">>)
    /\ \A k \in 1..Len(events) :
          events[k][1] = "-SEQUENCE_DONE-" => (k = Len(events) /\ pc = "finished")

\* stop() cut the loop short after the first module: the second entry was
\* never reached and the sequence is done
C10_Witness ==
    /\ pc = "finished"
    /\ stop_flag
    /\ idx = 2 /\ Len(entries) >= 2
    /\ Len(events) >= 2
    /\ events[Len(events) - 1] = <<"-MODULE_ENDED-", entries[1]>>
    /\ events[Len(events)] = <<"-SEQUENCE_DONE-", "">>

\* the calls run made for name, in order: a start_module, later a
\* stop_module, later a mark_completed
StartStopMark(cs, name) ==
    \E i, j, k \in 1..Len(cs) :
        /\ i < j /\ j < k
        /\ cs[i] = <<"start_module", name, "run">>
        /\ cs[j] = <<"stop_module", name, "run">>
        /\ cs[k] = <<"mark_completed", name, "run">>

EndedFor(evs, name) == \E k \in 1..Len(evs) : evs[k] = <<"-MODULE_ENDED-", name>>

\* C11: for every entry it started, run has called stop_module and then
\* mark_completed on the module when it emits module-ended; the completion
\* time is set to the current time whether the routine ended by itself or
\* the sequence was cancelled, and the step after the stop is always the mark.
C11_StopThenMarkBeforeEnded ==
    [][/\ \A name \in Names :
            EndedFor(events', name)
            => /\ StartStopMark(calls', name)
               /\ last_completed'[name] # NoTime
               /\ last_completed'[name] >= StartTime
       /\ (pc \in {"stop", "join"} /\ pc' # pc) => pc' \in {"join", "mark"}
       /\ (pc = "mark" /\ pc' # pc)
            => /\ last_completed'[entries[idx]] = now
               /\ calls' = Append(calls, <<"mark_completed", entries[idx], "run">>)
               /\ pc' = "ended"]_vars

\* arena ended by itself and was marked; tag_arena was cancelled, its
\* routine outlived the bounded stop, and it was marked all the same
C11_Witness ==
    /\ entries = <<"arena", "tag_arena">>
    /\ EndedFor(events, "arena") /\ EndedFor(events, "tag_arena")
    /\ stop_flag
    /\ calls[Len(calls) - 1] = <<"stop_module", "tag_arena", "run">>
    /\ \E t \in ThreadsOf(threads, "tag_arena") : threads[t].alive
    /\ last_completed["arena"] = StartTime
    /\ last_completed["tag_arena"] = StartTime + DefaultTimeout

\* C12: the routines of two entries of a sequence are never live at the
\* same time; in particular no thread of an earlier entry is alive when
\* run starts the next entry.
C12_OneAtATime ==
    \A t, u \in 1..Len(threads) : (threads[t].alive /\ threads[u].alive) => t = u

\* run had started name when stop() called the supervisor's stop for it
StartedBeforeStop(cs, name) ==
    \E i, j \in 1..Len(cs) :
        /\ i < j
        /\ cs[i] = <<"start_module", name, "run">>
        /\ cs[j] = <<"stop_module", name, "gui">>

\* C13: stop() sets the controller's flag; if a module is current it calls
\* the supervisor's stop for it, which sets the signal of its run; once
\* stop() has returned the flag is set, the polling loop of run does not go
\* to sleep again but leaves, the current module is not reported running
\* at the return, and a module that run had started when stop() was called
\* is not reported running from then on.
C13_StopCancelsActive ==
    [][/\ (gpc = "stop" /\ gpc' # gpc) => stop_flag'
       /\ (gpc = "check" /\ gpc' # gpc) => (gpc' = "call" <=> current # "")
       /\ (gpc = "call" /\ gpc' # gpc)
            => /\ calls' = Append(calls, <<"stop_module", current, "gui">>)
               /\ modules[current].stop_event # 0
                    => stop_events'[modules[current].stop_event]
       /\ gpc' = "returned"
            => /\ stop_flag'
               /\ pc' = "sleep" => pc = "sleep"
               /\ (pc = "poll" /\ pc' # pc) => pc' = "stop"
               /\ (gpc # "returned" /\ current # "") => ~RunningNext(current)
               /\ \A name \in Names :
                     StartedBeforeStop(calls', name) => ~RunningNext(name)]_vars

\* stop() found arena running with its signal unset, set it, waited the
\* whole timeout and cleared the handle of the thread, which is still alive
C13_Witness ==
    /\ gpc = "returned"
    /\ stop_flag
    /\ calls = << <<"start_module", "arena", "run">>, <<"stop_module", "arena", "gui">> >>
    /\ \E t \in ThreadsOf(threads, "arena") : threads[t].alive /\ stop_events[threads[t].stop_event]
    /\ ~is_running("arena")
    /\ now = StartTime + DefaultTimeout

Buckets(res) == {cluster_key(p) : p \in DOMAIN res}

ExampleRaw == (<<10, 10>> :> 90) @@ (<<12, 11>> :> 95) @@ (<<500, 500>> :> 80)

\* C17: clustering keeps exactly one match per non-empty bucket
\* (x div 30, y div 30), a raw match of that bucket with the highest
\* confidence in it; the raw matches (10,10,0.9), (12,11,0.95),
\* (500,500,0.8) give exactly two results, the centres of the matches at
\* (12,11) and at (500,500).
C17_OnePerBucketHighest ==
    shot.pc = "returned" =>
        /\ Len(shot.clusters) = Cardinality(Buckets(shot.res))
        /\ \A b \in Buckets(shot.res) :
              Cardinality({i \in 1..Len(shot.clusters) : shot.clusters[i].key = b}) = 1
        /\ \A i \in 1..Len(shot.clusters) :
              LET c == shot.clusters[i]
              IN  /\ <<c.x, c.y>> \in DOMAIN shot.res
                  /\ c.conf = shot.res[<<c.x, c.y>>]
                  /\ c.key = cluster_key(<<c.x, c.y>>)
                  /\ \A p \in DOMAIN shot.res :
                        cluster_key(p) = c.key => shot.res[p] <= c.conf
        /\ shot.res = ExampleRaw
              => /\ Len(shot.results) = 2
                 /\ {shot.results[i] : i \in 1..2} =
                       {<<12 + shot.tw \div 2, 11 + shot.th \div 2>>,
                        <<500 + shot.tw \div 2, 500 + shot.th \div 2>>}

C17_Witness ==
    /\ shot.pc = "returned"
    /\ shot.res = ExampleRaw
    /\ shot.tw = 0
    /\ shot.results = << <<12, 11>>, <<500, 500>> >>

\* C18: the candidates returned are in descending order of confidence, and
\* when clustering yields more than 5 clusters they are the 5 clusters of
\* highest confidence.
C18_TopFiveByConfidence ==
    shot.pc = "returned" =>
        /\ Len(shot.results) = IF Len(shot.clusters) > ClusterCap THEN ClusterCap
                               ELSE Len(shot.clusters)
        /\ \A i, j \in 1..Len(shot.results) :
              i < j => shot.clusters[i].conf >= shot.clusters[j].conf
        /\ \A i \in 1..Len(shot.results) :
              /\ shot.results[i] = Centers(shot.clusters, shot.tw, shot.th)[i]
              /\ \A j \in (Len(shot.results) + 1)..Len(shot.clusters) :
                    shot.clusters[i].conf >= shot.clusters[j].conf

\* C14: the battle counter stays between 0 and 10 and never decreases; it
\* grows by one, at the end of a cycle whose candidate was clicked; the loop
\* goes on exactly while the counter is below 10 and the signal is unset,
\* and goes to ReturnHome otherwise; a loop that neither was cancelled nor
\* met a failing step ends after exactly 10 full battle cycles.
C14_BattleCap ==
    [][/\ ses.battles_done \in 0..BattleCap
       /\ ses'.battles_done \in 0..BattleCap
       /\ ses'.battles_done >= ses.battles_done
       /\ ses'.battles_done # ses.battles_done
            => /\ ses.pc = "count"
               /\ ses'.battles_done = ses.battles_done + 1
               /\ ses.clicks = ses'.battles_done
       /\ (ses.pc = "loop" /\ ses'.pc # "loop")
            => ses'.pc = IF ~ses.stop_event /\ ses.battles_done < BattleCap
                         THEN "locate" ELSE "return_home"
       /\ (ses.pc # "return_home" /\ ses'.pc = "return_home" /\ ~ses.stop_event
              /\ ses'.ended \notin {"no_battles", "start_failed"})
            => /\ ses'.ended = "cap"
               /\ ses'.battles_done = BattleCap
               /\ ses'.clicks = BattleCap]_vars

C14_Witness ==
    /\ ses.pc = "return_home"
    /\ ses.ended = "cap"
    /\ ~ses.stop_event
    /\ ses.battles_done = BattleCap
    /\ ses.clicks = BattleCap

\* C15: used_battle_positions never holds more than 3 positions; the
\* position clicked is appended, and when 3 are held the oldest is dropped
\* and the order of the others is kept.
C15_UsedPositionsFifo ==
    [][/\ Len(ses.used_battle_positions) <= UsedCapacity
       /\ Len(ses'.used_battle_positions) <= UsedCapacity
       /\ (ses.pc = "click" /\ ses'.pc = "click_start")
            => ses'.used_battle_positions =
                 IF Len(ses.used_battle_positions) < UsedCapacity
                 THEN Append(ses.used_battle_positions, ses.chosen)
                 ELSE Append(Tail(ses.used_battle_positions), ses.chosen)]_vars

\* the fourth click on the same screen dropped (100,100)
C15_Witness ==
    /\ ses.pc = "click_start"
    /\ ses.clicks = 4
    /\ ses.used_battle_positions = << <<300, 300>>, <<100, 130>>, <<500, 100>> >>

\* the candidates no used position is within 30 of on both axes
FreshIn(candidates, used) ==
    {i \in 1..Len(candidates) :
        \A k \in 1..Len(used) :
            \/ Abs(candidates[i][1] - used[k][1]) >= Radius
            \/ Abs(candidates[i][2] - used[k][2]) >= Radius}

\* C16: candidate selection takes the first candidate, in the order
\* returned, that no used position is within 30 of on both axes, and none
\* when there is no such candidate (also when it selects again after an
\* overlay dismissal or a recovery); with (100,100) used and the candidates
\* (105,102), (300,300) it takes (300,300).
C16_FirstFreshCandidate ==
    [][/\ (ses'.chosen # None /\ ses'.chosen # ses.chosen)
            => \E i \in FreshIn(ses'.candidates, ses'.used_battle_positions) :
                  /\ ses'.chosen = ses'.candidates[i]
                  /\ \A j \in FreshIn(ses'.candidates, ses'.used_battle_positions) : i <= j
       /\ (ses.pc = "select" /\ ses'.pc # "select")
          => LET fresh == FreshIn(ses.candidates, ses.used_battle_positions)
             IN  /\ fresh = {} => (ses'.chosen = None /\ ses'.pc = "ladder_popup")
                 /\ fresh # {}
                      => /\ ses'.pc = "click"
                         /\ \E i \in fresh :
                               /\ ses'.chosen = ses.candidates[i]
                               /\ \A j \in fresh : i <= j
                 /\ (/\ ses.used_battle_positions = << <<100, 100>> >>
                     /\ ses.candidates = << <<105, 102>>, <<300, 300>> >>)
                      => ses'.chosen = <<300, 300>>]_vars

C16_Witness ==
    /\ ses.pc = "click"
    /\ ses.used_battle_positions = << <<100, 100>> >>
    /\ ses.candidates = << <<105, 102>>, <<300, 300>> >>
    /\ ses.chosen = <<300, 300>>

IsScroll(a) == a \in {"scroll", "scroll_failed"}
IsDrag(a) == a \in {"drag", "drag_failed"}
Gestures(acts) == SelectSeq(acts, LAMBDA a : IsScroll(a) \/ IsDrag(a))

\* C19: in one iteration of the battle loop there is at most one scroll
\* attempt, made before any drag, and at most 4 drag attempts; an iteration
\* that found no refresh control and no fresh candidate ends the loop only
\* after the scroll and all 4 drags (fewer only if the signal was set).
C19_ScrollThenDrags ==
    ses.pc # "off" =>
        LET g == Gestures(ses.acts)
        IN  /\ \A i \in 1..Len(g) : IsScroll(g[i]) <=> i = 1
            /\ Len(g) <= 1 + MaxDrags
            /\ (/\ ses.pc = "ladder_end"
                /\ ses.chosen = None
                /\ ses.refresh \in {"no_template", "not_located"})
                 => /\ Len(g) >= 1
                    /\ Len(g) = 1 + MaxDrags \/ ses.stop_event

\* C20: once the signal is set during the battle-over poll the session is
\* out of the poll within one poll interval, before a full wait of 30 time
\* units has gone by since the signal was set.
C20_CancelLeavesPoll ==
    (ses.pc = "over_sleep" /\ ses.stop_event) => ses.cancelled_for < BattleOverWait

\* C21: a session that got past EnsureHome and whose battle loop ended by
\* the cap, by the lack of battles or by cancellation has, when the routine
\* returns, polled for the home marker until it was seen.
C21_ReturnHomeAlways ==
    (ses.pc = "returned" /\ ses.ended \in {"cap", "no_battles", "cancelled"})
        => ses.home = "seen"

\* C22: a session ended by a Navigate step that found nothing never entered
\* the battle loop, did not end by an exception, and went through
\* ReturnHome before the routine returned.
C22_NavigateFailureReturnsHome ==
    ses.pc # "off" =>
        /\ ses.ended = "navigation"
              => /\ ses.pc = "returned"
                 /\ ses.battles_done = 0
                 /\ ses.clicks = 0
                 /\ ses.home # "not_run"

\* the routine takes a step of the drag loop (not the supervisor's cancel)
DragTurn == ses.pc = "ladder_drag" /\ ses'.stop_event = ses.stop_event
Dragged == ses'.di = ses.di + 1
DragDue ==
    /\ ses.chosen = None
    /\ ses.refresh \in {"no_template", "not_located"}
    /\ ses.di < MaxDrags
    /\ ~ses.stop_event

\* C23: a drag is made exactly when, after the scroll, there is still no
\* candidate, the earlier steps of the ladder found no refresh control on
\* screen, fewer than 4 drags were made and the signal is unset; the drags
\* end with the first one after which a candidate is found.
C23_DragsOnlyWithoutRefresh ==
    [][DragTurn => /\ Dragged <=> DragDue
                   /\ ses'.di <= MaxDrags
                   /\ (Dragged /\ ses'.candidates # <<>>) => ses'.pc = "ladder_end"]_vars

\* the step adds an entry to the recovery attempts of the iteration
Attempted == Len(ses'.acts) = Len(ses.acts) + 1
LastAct == ses'.acts[Len(ses'.acts)]
Succeeded == Attempted /\ LastAct \in {"refresh", "scroll", "drag"}
Spared == Attempted /\ LastAct \in {"dismiss", "refresh_failed", "scroll_failed", "drag_failed"}

\* C24: used_battle_positions is empty right after a refresh, scroll or
\* drag that succeeded, is left as it was by an overlay dismissal and by a
\* refresh, scroll or drag whose actuator call failed, and is emptied by
\* nothing else.
C24_ClearedOnlyOnSuccess ==
    [][ses.pc # "off" =>
          /\ Succeeded => ses'.used_battle_positions = <<>>
          /\ Spared => ses'.used_battle_positions = ses.used_battle_positions
          /\ (ses.used_battle_positions # <<>> /\ ses'.used_battle_positions = <<>>)
                => Succeeded]_vars

\* C25: no click, drag or key press that raises ends the session: the
\* routine never terminates by an exception.
C25_NoExceptionLeavesSession ==
    ses.pc # "raised" /\ (ses.pc # "off" => ses.ended # "exception")

\* C26: once the signal is set the routine starts no further retry cycle
\* (of a locate-and-click step, of the home polls, of the drags, of the
\* battle-over poll) and issues no further recovery action or battle click.
C26_NoCycleAfterCancel ==
    [][(ses.pc # "off" /\ ses.stop_event) =>
          /\ ses'.cycle <= ses.cycle
          /\ ses'.pc = ses.pc => ses'.turn = ses.turn
          /\ ses'.di <= ses.di
          /\ ses'.elapsed_wait <= ses.elapsed_wait \/ ses.pc = "over_sleep"
          /\ Len(ses'.acts) <= Len(ses.acts)
          /\ ses'.clicks = ses.clicks]_vars

\* the routine takes a turn of the loop of ensure_homescreen
HomeTurn == ses.pc = "ensure_homescreen" /\ ses'.stop_event = ses.stop_event /\ ses' # ses

\* C30: a turn of EnsureHome ends in failure exactly when it found the
\* signal set, ends in success only with the signal unset, and otherwise
\* is followed by another turn, without a limit on the turns.
C30_EnsureHomeOutcomes ==
    [][HomeTurn =>
          /\ ses'.pc \in {"returned", "navigate", "ensure_homescreen"}
          /\ ses'.pc = "returned" <=> ses.stop_event
          /\ ses'.pc = "returned" => ses'.ended = "no_homescreen"
          /\ ses'.pc = "ensure_homescreen" => ses'.turn = 1 - ses.turn]_vars

\* C27: once the signal is set the routine ends (it returns, or ends by an
\* exception), provided its thread keeps being scheduled and every external
\* call returns.
C27_CancelledSessionEnds ==
    (ses.pc # "off" /\ ses.stop_event) ~> (ses.pc \in {"returned", "raised"})

C27_Witness ==
    /\ ses.pc = "returned"
    /\ ses.stop_event
    /\ ses.ended = "cancelled"
    /\ ses.battles_done = 1
    /\ ses.home = "skipped"

\* run makes a call of start_module, is_running, stop_module or
\* mark_completed in this step
RunCalls == pc \in {"start", "poll", "stop", "mark"} /\ pc' # pc

\* C28: while a supervisor call of the controller for a name is in progress
\* (the stop_module of run or of stop() waiting in its join), the controller
\* makes no other call for that name, neither from run nor from stop().
C28_NoOverlappingCalls ==
    [][/\ ~(pc = "join" /\ gpc = "join" /\ join["run"].name = join["gui"].name)
       /\ (gpc = "join" /\ RunCalls) => entries[idx] # join["gui"].name
       /\ (pc = "join" /\ gpc = "call" /\ gpc' # gpc) => current # join["run"].name]_vars

\* the names whose start_module, stop_module or mark_completed call makes
\* this step: the call is entered, or its join returns
Touched ==
    IF calls' # calls
    THEN IF calls'[Len(calls')][1] \in {"start_module", "stop_module", "mark_completed"}
         THEN {calls'[Len(calls')][2]} ELSE {}
    ELSE {join[c].name : c \in {d \in Callers : join[d].active /\ ~join'[d].active}}

\* C29: a step of a start, stop or markCompleted call for one name leaves
\* the handle, the signal, the running status and the cooldown entry of
\* every other name as they were, whatever calls for other names are in
\* progress in the other thread; so each name's entries are those its own
\* calls produce.
C29_DifferentNamesDoNotInterfere ==
    [][\A m \in Names \ Touched :
          Touched # {} =>
             /\ modules'[m] = modules[m]
             /\ last_completed'[m] = last_completed[m]
             /\ RunningNext(m) <=> is_running(m)
             /\ modules[m].stop_event # 0 =>
                   stop_events'[modules[m].stop_event] = stop_events[modules[m].stop_event]]_vars

C29_Witness ==
    /\ gpc = "on_stop_join"
    /\ join["gui"].active
    /\ join["gui"].name = "arena"
    /\ pc = "join"
    /\ join["run"].active
    /\ join["run"].name = "tag_arena"
    /\ last_completed["arena"] = now

\* the routine runs one cycle of a locate-and-click step
FindTurn ==
    /\ ses.pc \in {"navigate", "click_start", "click_return"}
    /\ ses'.stop_event = ses.stop_event
    /\ ses' # ses
MaxCycles == IF ses.pc = "navigate" THEN NavCycles ELSE BattleCycles
SameCall == ses'.pc = ses.pc /\ ses'.nav = ses.nav

\* C31: each cycle of a locate-and-click step makes one locate attempt, and
\* a step with n cycles runs at most n of them, whether a cycle ended in an
\* overlay dismissal or in the wait; the cycle that clicks the target ends
\* the step, and the step reports failure only after its n-th cycle (or
\* before the first one, when the template is not there).
C31_BoundedCycles ==
    [][FindTurn =>
          /\ ses.cycle + 1 <= MaxCycles
          /\ SameCall => ses'.cycle = ses.cycle + 1 /\ ses'.cycle < MaxCycles
          /\ ~SameCall => ses'.cycle = 0
          /\ (ses.ended = "" /\ ses'.ended \in {"navigation", "start_failed"})
                => ses.cycle + 1 = MaxCycles \/ ses.cycle = 0
          /\ ses'.ended \in {"navigation", "start_failed"}
                <=> ses'.pc \in {"returned", "return_home"}]_vars

C31_Witness ==
    /\ ses.pc = "click_start"
    /\ ses.cycle = BattleCycles - 1
    /\ ses.clicks = 2
    /\ ses.battles_done = 1

\* C32: a start step that failed after a candidate was clicked ends the
\* battle loop: the session goes to ReturnHome, the counter is not
\* incremented for the candidate clicked (one more click than battles),
\* and from then on no candidate is clicked and no battle is counted.
C32_StartFailureEndsLoop ==
    [][(ses.pc # "off" /\ ses'.ended = "start_failed") =>
          /\ ses'.pc \in {"return_home", "exit", "returned", "raised"}
          /\ ses'.clicks = ses'.battles_done + 1
          /\ ses'.battles_done = ses.battles_done
          /\ ses'.clicks = ses.clicks
          /\ ses.ended # "start_failed"
                => ses.pc = "click_start" /\ ses'.pc = "return_home"]_vars

C32_Witness ==
    /\ ses.pc = "returned"
    /\ ses.ended = "start_failed"
    /\ ses.battles_done = 2
    /\ ses.clicks = 3
    /\ ses.home = "seen"

\* C33: a return step that failed ends nothing: the step is followed by
\* the count, the counter grows by one, and the loop goes back to the
\* search for candidates unless the cap is reached or the signal is set.
C33_ReturnFailureGoesOn ==
    [][/\ (ses.pc # "off" /\ ses'.stats = "stuck") =>
             /\ ses'.ended = ""
             /\ ses'.pc \in {"count", "loop"}
             /\ ses.pc = "click_return"
                   => ses'.pc = "count" /\ ses'.battles_done = ses.battles_done
             /\ (ses.pc = "count" /\ ses'.pc = "loop")
                   => ses'.battles_done = ses.battles_done + 1
       /\ (ses.pc = "loop" /\ ses.stats = "stuck" /\ ses'.pc # "loop") =>
             ses'.pc = IF ~ses.stop_event /\ ses.battles_done < BattleCap
                       THEN "locate" ELSE "return_home"]_vars

C33_Witness ==
    /\ ses.pc = "loop"
    /\ ses.stats = "stuck"
    /\ ses.battles_done = 2
    /\ ~ses.stop_event

\* a step of an operation of the supervisor, or of a thread, other than
\* mark_completed
NotMarkCompleted ==
    \/ \E name \in Names, target \in Routines, log_func \in LogFuncs :
          register_module("main", name, target, log_func)
    \/ \E name \in Names : start_module("main", name)
    \/ \E name \in Names : stop_module("main", name, DefaultTimeout)
    \/ start_all("main")
    \/ stop_all("main")
    \/ join_return("main")
    \/ \E t \in 1..Len(threads) : runner_return(t)
    \/ \E t \in 1..Len(threads), sink_ok \in BOOLEAN : runner_exception(t, sink_ok)

\* C34: the cooldown record is written by mark_completed only: register,
\* start, stop, start_all, stop_all, the return of a join and the end of a
\* routine (normal or by failure) leave every module's last-completion time
\* as it was, and a step that changes the record is a mark_completed that
\* writes the clock's value for its one name.
C34_OnlyMarkCompletedWrites ==
    [][/\ NotMarkCompleted => last_completed' = last_completed
       /\ last_completed' # last_completed
          => \E name \in Names :
                /\ mark_completed("main", name)
                /\ last_completed' = [last_completed EXCEPT ![name] = now]]_vars

\* arena was started and its routine ended, campaign was started and stopped:
\* neither has a last-completion time, although the clock has moved
C34_Witness ==
    /\ \E t \in ThreadsOf(threads, "arena") : ~threads[t].alive
    /\ \E t \in ThreadsOf(threads, "campaign") :
          stop_events[threads[t].stop_event] /\ modules["campaign"].thread = 0
    /\ now > 0
    /\ \A name \in Names : last_completed[name] = NoTime

\* the executions of the routine of name that are live
LiveThreads(name) == {t \in ThreadsOf(threads, name) : threads[t].alive}

\* C35: for every module name at most one execution of its routine is live
\* at any time, whatever starts and stops were called on the name, also
\* after a stop whose join timed out.
C35_OneLiveExecutionPerName ==
    \A name \in Names : Cardinality(LiveThreads(name)) <= 1

\* the routine of name ended by itself: its handle is still stored (no stop
\* cleared it) and its thread is no longer alive
EndedByItself(name) ==
    /\ is_registered(name)
    /\ modules[name].thread # 0
    /\ ~threads[modules[name].thread].alive

\* C39: a module whose routine ended by itself, by a return or by a failure,
\* is not running, and the next start_module launches a new thread with a
\* new signal that is unset and that no earlier run holds, with no stop in
\* between.
C39_EndedModuleRestarts ==
    [][\A name \in Names :
          EndedByItself(name)
          => /\ ~is_running(name)
             /\ start_module("main", name)
                => LET e == modules'[name].stop_event
                       t == modules'[name].thread
                   IN  /\ ret'["main"] = "ok"
                       /\ t = Len(threads) + 1
                       /\ threads'[t].alive
                       /\ threads'[t].name = name
                       /\ threads'[t].stop_event = e
                       /\ e \notin 1..Len(stop_events)
                       /\ stop_events'[e] = FALSE
                       /\ RunningNext(name)]_vars

\* the first run of arena ended by a failure without having been stopped;
\* the second run is live with its own signal unset
C39_Witness ==
    /\ Len(threads) = 2
    /\ threads[1].name = "arena" /\ threads[2].name = "arena"
    /\ ~threads[1].alive /\ ~stop_events[1]
    /\ \E i \in 1..Len(sink) : sink[i][2] = "arena"
    /\ modules["arena"].thread = 2 /\ modules["arena"].stop_event = 2
    /\ is_running("arena") /\ ~stop_events[2]

\* C38: no two candidates returned by locate_all_on_screen are the same
\* position under the test of the selection (arena.py:196): any two of them
\* are at least 30 apart on one axis, also when they lie on either side of
\* a bucket boundary.
C38_NoNearDuplicates ==
    shot.pc = "returned" =>
        \A i, j \in 1..Len(shot.results) :
            i # j => ~too_close(shot.results[i], <<shot.results[j]>>)

\* the name of the last start_module that run called, "" before the first
LastStarted ==
    LET starts == {i \in 1..Len(calls) : calls[i][1] = "start_module" /\ calls[i][3] = "run"}
    IN  IF starts = {} THEN ""
        ELSE calls[CHOOSE i \in starts : \A j \in starts : j <= i][2]

\* C36: once stop() has set the controller's flag, run starts no module any
\* more, and the only module it still marks completed is the one it had
\* started before.  (run marks the module of the iteration it is in, so a
\* mark of a module that was not active when the flag was set needs a start
\* after the flag.)
C36_NoStartAfterCancel ==
    [][stop_flag => /\ ~run_start
                    /\ run_mark => entries[idx] = LastStarted]_vars

\* C37: after stop() has set the flag, -SEQUENCE_DONE- is emitted no later
\* than the supervisor's stop wait plus one poll interval after it, also
\* when the routine of the module never looks at its stop event.
C37_DoneWithinStopWait ==
    [][(run_done /\ stop_flag) => now <= stopped_at + DefaultTimeout + PollSleep]_vars

====
